---- MODULE Spec2Model ----
(***************************************************************************)
(* Job store and orchestrator of the AMBOSS screenshot scraper.            *)
(*                                                                         *)
(* The store is the SQLite database of src/amboss/db.py (tables urls,      *)
(* runs, images); the orchestrator is ScrapingTask of src/amboss/tasks.py  *)
(* (process_slug, process_pending_urls, retry_failed_urls).  Every         *)
(* database statement is committed on its own (each method of              *)
(* DatabaseManager ends with conn.commit()), so one action of the model is *)
(* one statement, or one browser step of process_slug.  A worker is one    *)
(* invocation context (one CLI process): several of them can run a batch   *)
(* against the same database file at the same time.                        *)
(***************************************************************************)
EXTENDS Integers, Sequences, FiniteSets, TLC

(* ------------------------------ bounds -------------------------------- *)

MaxCalls == 3      \* batch invocations in a sequence of operations
MaxOverlap == 2    \* batch invocations when batches run concurrently
MaxFaultCalls == 2 \* batch invocations against a database that raises errors
MaxShots == 1      \* screenshots one capture returns
MaxLimit == 2      \* largest value of the limit option

Workers == {1, 2}       \* invocation contexts that may run a batch at once

\* The (slug, url) pairs the crawl can yield.  /de/article/<slug> and
\* /de/knowledge/<slug> both match article_pattern, so two URLs can carry
\* the same slug.
Found ==
  {[slug |-> "a", url |-> "/de/article/a"],
   [slug |-> "a", url |-> "/de/knowledge/a"],
   [slug |-> "b", url |-> "/de/article/b"]}

TrackedSlugs == {f.slug : f \in Found}

\* The run identifiers, in the order in which unused ones are handed out.
RunIdSeq == <<"r1", "r2">>

\* Optional[int]: None is {}, the integer n is {n}.
None == {}
Some(n) == {n}
Limits == {None} \cup {Some(n) : n \in 0..MaxLimit}

\* SQL NULL, as opposed to the empty string.
NULL == "NULL"

\* The error texts, by what the code tests of them: the empty string and a
\* non-empty text.  An exception raised by a browser step may carry either;
\* the texts the code builds itself ("Authentication failed", "Page
\* validation failed: ...") and the sqlite3 messages are non-empty.
NonEmptyMsg == "error"
ExcMsgs == {"", NonEmptyMsg}

VARIABLES
  urls,      \* table urls: the rows in rowid (insertion) order
  runs,      \* table runs: a set of rows
  images,    \* table images: a set of rows
  task,      \* per worker: the position and locals of its running batch
  calls,     \* invocations of process_pending_urls / retry_failed_urls so far
  page,      \* the browser page a component works on, outside a batch
  call       \* the component call in progress: its function, input and result

vars == <<urls, runs, images, task, calls, page, call>>

(* --------------------------- table helpers ---------------------------- *)

Min(a, b) == IF a <= b THEN a ELSE b

Range(s) == {s[i] : i \in 1..Len(s)}

Statuses == {"pending", "processing", "done", "failed_expansion", "failed_validation"}

\* Python truthiness of an Optional[int]: None and 0 are false.
Truthy(limit) == limit # None /\ limit # Some(0)

\* Python truthiness of an Optional[str]: None and "" are false.
TruthyStr(error) == error # NULL /\ error # ""

\* The value of an Optional[int] that is not None.
Value(limit) == CHOOSE n \in limit : TRUE

\* A new row of table urls: status defaults to 'pending', last_error to
\* NULL, retry_count to 0.
UrlRow(slug, url) ==
  [slug |-> slug, url |-> url, status |-> "pending",
   last_error |-> NULL, retry_count |-> 0]

\* A new row of table runs: finished, ok and error_msg are NULL.
RunRow(run_id, slug) ==
  [run_id |-> run_id, slug |-> slug, finished |-> FALSE,
   ok |-> NULL, error_msg |-> NULL]

ImageRow(run_id, slug, idx) == [run_id |-> run_id, slug |-> slug, idx |-> idx]

HasUrl(rows, slug) == \E i \in 1..Len(rows) : rows[i].slug = slug

HasRun(rs, run_id, slug) == \E r \in rs : r.run_id = run_id /\ r.slug = slug

HasImage(imgs, run_id, slug, idx) ==
  \E m \in imgs : m.run_id = run_id /\ m.slug = slug /\ m.idx = idx

\* The row of a tracked slug (the first one, should there be several).
UrlOf(rows, slug) ==
  rows[CHOOSE i \in 1..Len(rows) :
         rows[i].slug = slug /\ \A k \in 1..(i - 1) : rows[k].slug # slug]

StatusOf(rows, slug) == IF HasUrl(rows, slug) THEN UrlOf(rows, slug).status ELSE NULL

(* ----------------------- DatabaseManager methods ---------------------- *)

\* add_url written with INSERT OR REPLACE: the row of a known slug is
\* deleted and a new row with the column defaults takes its place.
InsertOrReplaceUrl(rows, slug, url) ==
  LET NotSlug(r) == r.slug # slug
  IN  Append(SelectSeq(rows, NotSlug), UrlRow(slug, url))

\* add_url: INSERT OR IGNORE INTO urls (slug, url); slug is the PRIMARY KEY.
InsertOrIgnoreUrl(rows, slug, url) ==
  IF HasUrl(rows, slug) THEN rows ELSE Append(rows, UrlRow(slug, url))

IsPending(r) == r.status = "pending"

\* status LIKE 'failed_%'
IsFailed(r) == r.status \in {"failed_expansion", "failed_validation"}

SlugsOf(rows) == [i \in 1..Len(rows) |-> rows[i].slug]

\* get_pending_urls: SELECT ... WHERE status = 'pending' [LIMIT n]; the
\* LIMIT clause is added only when `if limit:` holds.  Without ORDER BY
\* SQLite returns the rows in rowid order.
GetPendingUrls(rows, limit) ==
  LET pending == SlugsOf(SelectSeq(rows, IsPending))
  IN  IF Truthy(limit)
        THEN SubSeq(pending, 1, Min(Value(limit), Len(pending)))
        ELSE pending

\* get_failed_urls selecting every row that has been attempted,
\* WHERE status NOT IN ('pending', 'processing').
GetAttemptedUrls(rows) ==
  LET Attempted(r) == r.status \notin {"pending", "processing"}
  IN  SlugsOf(SelectSeq(rows, Attempted))

\* get_failed_urls: SELECT ... WHERE status LIKE 'failed_%'
GetFailedUrls(rows) == SlugsOf(SelectSeq(rows, IsFailed))

\* update_url_status: with a truthy error the error is stored and the retry
\* counter incremented; otherwise only the status is written.
UpdateUrlStatus(rows, slug, status, error) ==
  [i \in 1..Len(rows) |->
     IF rows[i].slug # slug THEN rows[i]
     ELSE IF TruthyStr(error)
       THEN [rows[i] EXCEPT !.status = status, !.last_error = error,
                            !.retry_count = @ + 1]
       ELSE [rows[i] EXCEPT !.status = status]]

\* start_run: INSERT INTO runs (run_id, slug).  The insert raises when the
\* primary key (run_id, slug) exists, when slug is not in urls (foreign
\* key), or when sqlite3 reports an error such as "database is locked"
\* (dbError); start_run catches the exception and returns False.
StartRun(rs, rows, run_id, slug, dbError) ==
  IF dbError \/ HasRun(rs, run_id, slug) \/ ~HasUrl(rows, slug)
    THEN [ok |-> FALSE, runs |-> rs]
    ELSE [ok |-> TRUE, runs |-> rs \cup {RunRow(run_id, slug)}]

\* finish_run: UPDATE runs SET finished, ok, error_msg WHERE run_id, slug.
FinishRun(rs, run_id, slug, ok, error_msg) ==
  {IF r.run_id = run_id /\ r.slug = slug
     THEN [r EXCEPT !.finished = TRUE, !.ok = ok, !.error_msg = error_msg]
     ELSE r : r \in rs}

\* add_image on a connection without PRAGMA foreign_keys = ON (the SQLite
\* default): the reference to runs is not enforced.
AddImageUnchecked(imgs, rs, run_id, slug, idx, dbError) ==
  IF dbError \/ HasImage(imgs, run_id, slug, idx)
    THEN [ok |-> FALSE, images |-> imgs]
    ELSE [ok |-> TRUE, images |-> imgs \cup {ImageRow(run_id, slug, idx)}]

\* add_image: INSERT INTO images.  With PRAGMA foreign_keys = ON the insert
\* raises when runs has no row (run_id, slug); it raises when the primary
\* key (run_id, slug, idx) exists, or on an sqlite3 error (dbError).
AddImage(imgs, rs, run_id, slug, idx, dbError) ==
  IF dbError \/ ~HasRun(rs, run_id, slug) \/ HasImage(imgs, run_id, slug, idx)
    THEN [ok |-> FALSE, images |-> imgs]
    ELSE [ok |-> TRUE, images |-> imgs \cup {ImageRow(run_id, slug, idx)}]


(* ------------------------- ScrapingTask: state ------------------------ *)

\* The locals of a worker that runs no batch.
Idle ==
  [pc |-> "idle",          \* the statement the worker executes next
   run_id |-> NULL,          \* run_id of the batch
   failed_urls |-> <<>>,   \* retry_failed_urls: result of get_failed_urls
   pending_urls |-> <<>>,  \* process_pending_urls: result of get_pending_urls
   i |-> 0,                \* position of the running for loop
   successful |-> 0,       \* process_pending_urls: the counters of the batch
   failed |-> 0,
   all |-> FALSE,          \* pending_urls holds every row that was pending
   success |-> FALSE,      \* process_slug's result: (success, error)
   error |-> NULL,
   shots |-> {},           \* idx of the captured screenshots not yet saved
   created |-> {},         \* process_slug: what it created and has not closed
   shown |-> NULL]         \* process_slug: the URL its page shows

\* The slug the batch loop is at.
Slug(t) == t.pending_urls[t.i]

Busy(w) == task[w].pc # "idle"

\* The run identifiers in use.
UsedRunIds == {r.run_id : r \in runs} \cup {task[w].run_id : w \in {v \in Workers : Busy(v)}}

\* The values of the run_id argument: any identifier in use (passed by the
\* caller) or an unused one (passed by the caller, or made by uuid4); which
\* unused one makes no difference, so the first is taken.
RunIdChoices ==
  LET unused == {k \in 1..Len(RunIdSeq) : RunIdSeq[k] \notin UsedRunIds}
  IN  UsedRunIds \cup {RunIdSeq[k] : k \in {m \in unused : \A n \in unused : m <= n}}

\* The database after _create_tables, and no batch running.
EmptyStore ==
  /\ urls = <<>>
  /\ runs = {}
  /\ images = {}
  /\ task = [w \in Workers |-> Idle]
  /\ calls = 0

\* No page is open and no component is called outside process_slug.
NoPage == <<>>
NoCall == [fn |-> NULL]

Init ==
  /\ EmptyStore
  /\ page = NoPage
  /\ call = NoCall

(* ------------------------------ discovery ----------------------------- *)

\* discover_articles: db.add_url(slug, url) for a URL the crawl yielded.
AddUrl(slug, url) ==
  /\ urls' = InsertOrIgnoreUrl(urls, slug, url)
  /\ UNCHANGED <<runs, images, task, calls, page, call>>

(* ------------------------ process_pending_urls ------------------------ *)

\* The batch a worker starts on the rows get_pending_urls returned; with no
\* row the method returns at once.
Batch(run_id, limit, rows) ==
  LET sel == GetPendingUrls(rows, limit)
  IN  IF sel = <<>> THEN Idle
      ELSE [Idle EXCEPT !.pc = "mark", !.run_id = run_id,
                        !.pending_urls = sel, !.i = 1,
                        !.all = (Len(sel) = Len(SelectSeq(rows, IsPending)))]

\* process_pending_urls(limit, run_id) up to get_pending_urls.  A run_id of
\* None is replaced by a uuid4, which is one more value of run_id.
ProcessPendingUrls(w, limit, run_id) ==
  /\ ~Busy(w)
  /\ calls' = calls + 1
  /\ task' = [task EXCEPT ![w] = Batch(run_id, limit, urls)]
  /\ UNCHANGED <<urls, runs, images, page, call>>

\* for slug, url in pending_urls: update_url_status(slug, "processing")
MarkProcessing(w) ==
  /\ task[w].pc = "mark"
  /\ urls' = UpdateUrlStatus(urls, Slug(task[w]), "processing", NULL)
  /\ task' = [task EXCEPT ![w].pc = "start_run"]
  /\ UNCHANGED <<runs, images, calls, page, call>>

\* await db.start_run(run_id, slug): the returned flag is not looked at.
DoStartRun(w, faults) ==
  /\ task[w].pc = "start_run"
  /\ \E dbError \in faults :
       runs' = StartRun(runs, urls, task[w].run_id, Slug(task[w]), dbError).runs
  /\ task' = [task EXCEPT ![w].pc = "context"]
  /\ UNCHANGED <<urls, images, calls, page, call>>

(* ----------------------------- process_slug --------------------------- *)

\* process_slug returns (False, str(e)) from its except clause.
Failed(t, msg, pc) == [t EXCEPT !.success = FALSE, !.error = msg, !.pc = pc, !.shots = {}]

\* process_slug returns (True, None) after _save_results.
Succeeded(t) == [t EXCEPT !.success = TRUE, !.error = NULL, !.pc = "close", !.shots = {}]

\* The URLs a page of process_slug shows: no document, the article of a
\* slug (the slug stands for its URL), and the page verify_auth loads.
Blank == "about:blank"
ArticleUrl(slug) == slug
AuthCheckUrl == "https://next.amboss.com/de"

\* context = await self.auth_manager.create_context()
CreateContext(w) ==
  /\ task[w].pc = "context"
  /\ \E msg \in ExcMsgs \cup {NULL} :
       task' = [task EXCEPT ![w] =
                  IF msg = NULL THEN [@ EXCEPT !.pc = "page", !.created = {"context"}]
                  ELSE Failed(@, msg, "status")]
  /\ UNCHANGED <<urls, runs, images, calls, page, call>>

\* page = await context.new_page(): outside the inner try, so a failure
\* skips the finally clause.
NewPage(w) ==
  /\ task[w].pc = "page"
  /\ \E msg \in ExcMsgs \cup {NULL} :
       task' = [task EXCEPT ![w] =
                  IF msg = NULL
                    THEN [@ EXCEPT !.pc = "navigate", !.shown = Blank,
                                   !.created = @ \cup {"page"}]
                  ELSE Failed(@, msg, "status")]
  /\ UNCHANGED <<urls, runs, images, calls, page, call>>

\* await self._navigate_to_page(page, url): page.goto(url)
Navigate(w) ==
  /\ task[w].pc = "navigate"
  /\ \E msg \in ExcMsgs \cup {NULL} :
       task' = [task EXCEPT ![w] =
                  IF msg = NULL
                    THEN [@ EXCEPT !.pc = "auth", !.shown = ArticleUrl(Slug(task[w]))]
                  ELSE Failed(@, msg, "close")]
  /\ UNCHANGED <<urls, runs, images, calls, page, call>>

\* if not await self.auth_manager.verify_auth(page): raise Exception(...)
\* verify_auth loads f"{settings.base_url}/de" in the page it is given and
\* looks for the indicators there.
VerifyAuth(w) ==
  /\ task[w].pc = "auth"
  /\ \E msg \in ExcMsgs \cup {NULL} :
       task' = [task EXCEPT ![w] =
                  IF msg = NULL THEN [@ EXCEPT !.pc = "expand", !.shown = AuthCheckUrl]
                  ELSE Failed(@, msg, "close")]
  /\ UNCHANGED <<urls, runs, images, calls, page, call>>

\* await self._expand_content(page): fully_expand returns or raises.
Expand(w) ==
  /\ task[w].pc = "expand"
  /\ \E msg \in ExcMsgs \cup {NULL} :
       task' = [task EXCEPT ![w] =
                  IF msg = NULL THEN [@ EXCEPT !.pc = "validate"]
                  ELSE Failed(@, msg, "close")]
  /\ UNCHANGED <<urls, runs, images, calls, page, call>>

\* process_slug without the check of validation_result["validation_passed"].
AfterValidateUnchecked(t, validation_passed) == [t EXCEPT !.pc = "capture"]

\* What process_slug does with the result of validate_page.
AfterValidate(t, validation_passed) ==
  IF validation_passed THEN [t EXCEPT !.pc = "capture"]
  ELSE Failed(t, NonEmptyMsg, "close")

\* validation_result = await self._validate_page(page); validate_page
\* catches every exception and returns the result dict.
Validate(w) ==
  /\ task[w].pc = "validate"
  /\ \E validation_passed \in BOOLEAN :
       task' = [task EXCEPT ![w] = AfterValidate(@, validation_passed)]
  /\ UNCHANGED <<urls, runs, images, calls, page, call>>

\* screenshots = await self._capture_screenshots(page, slug, run_id): the
\* idx of the entries are the positions of the sections that were captured.
CaptureShots(w, maxShots) ==
  /\ task[w].pc = "capture"
  /\ \/ \E msg \in ExcMsgs :
          task' = [task EXCEPT ![w] = Failed(@, msg, "close")]
     \/ \E got \in SUBSET (0..(maxShots - 1)) :
          task' = [task EXCEPT ![w] =
                     IF got = {} THEN Succeeded(@)
                     ELSE [@ EXCEPT !.pc = "save", !.shots = got]]
  /\ UNCHANGED <<urls, runs, images, calls, page, call>>

Capture(w) == CaptureShots(w, MaxShots)

\* The least idx not yet saved.
NextShot(t) == CHOOSE n \in t.shots : \A m \in t.shots : n <= m

\* _save_results: one db.add_image per screenshot; an exception of
\* add_image ends process_slug with (False, str(e)).
SaveImage(w, faults) ==
  /\ task[w].pc = "save"
  /\ \E dbError \in faults :
       LET t == task[w]
           r == AddImage(images, runs, t.run_id, Slug(t), NextShot(t), dbError)
       IN  /\ images' = r.images
           /\ task' = [task EXCEPT ![w] =
                IF ~r.ok THEN Failed(t, NonEmptyMsg, "close")
                ELSE IF t.shots = {NextShot(t)} THEN Succeeded(t)
                ELSE [t EXCEPT !.shots = @ \ {NextShot(t)}]]
  /\ UNCHANGED <<urls, runs, calls, page, call>>

\* finally: await page.close(); await context.close()
ClosePage(w) ==
  /\ task[w].pc = "close"
  /\ task' = [task EXCEPT ![w] = [@ EXCEPT !.pc = "status", !.created = {},
                                           !.shown = NULL]]
  /\ UNCHANGED <<urls, runs, images, calls, page, call>>

(* ------------------- process_pending_urls, continued ------------------ *)

\* The loop recording every failure as a failure of the validation.
RecordStatusValidation(rows, t) ==
  IF t.success THEN UpdateUrlStatus(rows, Slug(t), "done", NULL)
  ELSE UpdateUrlStatus(rows, Slug(t), "failed_validation", t.error)

\* The loop putting a URL that failed back to pending.
RecordStatusRequeue(rows, t) ==
  IF t.success THEN UpdateUrlStatus(rows, Slug(t), "done", NULL)
  ELSE UpdateUrlStatus(rows, Slug(t), "pending", t.error)

\* if success: update_url_status(slug, "done")
\* else: update_url_status(slug, "failed_expansion", error)
RecordStatus(rows, t) ==
  IF t.success THEN UpdateUrlStatus(rows, Slug(t), "done", NULL)
  ELSE UpdateUrlStatus(rows, Slug(t), "failed_expansion", t.error)

\* The call of process_slug is over: what it left open stays open, out of
\* the loop's reach.
UpdateStatus(w) ==
  /\ task[w].pc = "status"
  /\ urls' = RecordStatus(urls, task[w])
  /\ task' = [task EXCEPT ![w] = [@ EXCEPT !.pc = "finish", !.created = {}]]
  /\ UNCHANGED <<runs, images, calls, page, call>>

\* The loop with `continue` after a failed attempt's finish_run: the sleep
\* is made after the successful attempts only.
DoFinishRunContinue(w) ==
  /\ task[w].pc = "finish"
  /\ runs' = FinishRun(runs, task[w].run_id, Slug(task[w]),
                       IF task[w].success THEN "TRUE" ELSE "FALSE", task[w].error)
  /\ task' = [task EXCEPT ![w] =
                IF @.success THEN [@ EXCEPT !.pc = "sleep", !.successful = @ + 1]
                ELSE IF @.i < Len(@.pending_urls)
                  THEN [@ EXCEPT !.pc = "mark", !.i = @ + 1, !.failed = @ + 1,
                                 !.success = FALSE, !.error = NULL]
                ELSE Idle]
  /\ UNCHANGED <<urls, images, calls, page, call>>

\* finish_run(run_id, slug, True); successful += 1, or
\* finish_run(run_id, slug, False, error); failed += 1
DoFinishRun(w) ==
  /\ task[w].pc = "finish"
  /\ runs' = FinishRun(runs, task[w].run_id, Slug(task[w]),
                       IF task[w].success THEN "TRUE" ELSE "FALSE", task[w].error)
  /\ task' = [task EXCEPT ![w] =
                IF @.success THEN [@ EXCEPT !.pc = "sleep", !.successful = @ + 1]
                ELSE [@ EXCEPT !.pc = "sleep", !.failed = @ + 1]]
  /\ UNCHANGED <<urls, images, calls, page, call>>

\* await asyncio.sleep(delay), then the next URL or the return.
Sleep(w) ==
  /\ task[w].pc = "sleep"
  /\ task' = [task EXCEPT ![w] =
                IF @.i < Len(@.pending_urls)
                  THEN [@ EXCEPT !.pc = "mark", !.i = @ + 1,
                                 !.success = FALSE, !.error = NULL]
                  ELSE Idle]
  /\ UNCHANGED <<urls, runs, images, calls, page, call>>

(* -------------------------- retry_failed_urls ------------------------- *)

\* The reset loop a worker starts on the rows get_failed_urls returned; with
\* no row the method returns at once.
Retry(run_id, rows) ==
  LET failed == GetFailedUrls(rows)
  IN  IF failed = <<>> THEN Idle
      ELSE [Idle EXCEPT !.pc = "reset", !.run_id = run_id,
                        !.failed_urls = failed, !.i = 1]

\* retry_failed_urls(run_id) up to get_failed_urls.
RetryFailedUrls(w, run_id) ==
  /\ ~Busy(w)
  /\ calls' = calls + 1
  /\ task' = [task EXCEPT ![w] = Retry(run_id, urls)]
  /\ UNCHANGED <<urls, runs, images, page, call>>

\* for slug, url, error in failed_urls: update_url_status(slug, "pending")
ResetStatus(w) ==
  /\ task[w].pc = "reset"
  /\ urls' = UpdateUrlStatus(urls, task[w].failed_urls[task[w].i], "pending", NULL)
  /\ task' = [task EXCEPT ![w] =
                IF @.i < Len(@.failed_urls) THEN [@ EXCEPT !.i = @ + 1]
                ELSE [@ EXCEPT !.pc = "select"]]
  /\ UNCHANGED <<runs, images, calls, page, call>>

\* return await self.process_pending_urls(limit=len(failed_urls), run_id=run_id)
SelectPending(w) ==
  /\ task[w].pc = "select"
  /\ task' = [task EXCEPT ![w] =
                Batch(@.run_id, Some(Len(@.failed_urls)), urls)]
  /\ UNCHANGED <<urls, runs, images, calls, page, call>>

(* ----------------------------- environment ---------------------------- *)

\* The process is killed, or a BaseException (KeyboardInterrupt,
\* CancelledError) or a database error outside start_run and process_slug
\* ends the batch: nothing is rolled back, every statement was committed.
Interrupt(w) ==
  /\ Busy(w)
  /\ task' = [task EXCEPT ![w] = Idle]
  /\ UNCHANGED <<urls, runs, images, calls, page, call>>

(* --------------------------- specifications --------------------------- *)

\* The sqlite3 errors of a database no other process holds locked, and of
\* one that may raise "database is locked" or a disk error on an insert.
NoFaults == {FALSE}
Faults == BOOLEAN

\* One statement of the batch a worker runs.
Step(w, faults) ==
  \/ MarkProcessing(w) \/ DoStartRun(w, faults)
  \/ CreateContext(w) \/ NewPage(w) \/ Navigate(w) \/ VerifyAuth(w)
  \/ Expand(w) \/ Validate(w) \/ Capture(w) \/ SaveImage(w, faults) \/ ClosePage(w)
  \/ UpdateStatus(w) \/ DoFinishRun(w) \/ Sleep(w)
  \/ ResetStatus(w) \/ SelectPending(w)
  \/ Interrupt(w)

\* Any number of workers, interleaved statement by statement.
Next ==
  \/ \E f \in Found : AddUrl(f.slug, f.url)
  \/ \E w \in Workers, limit \in Limits, run_id \in RunIdChoices :
       calls < MaxOverlap /\ ProcessPendingUrls(w, limit, run_id)
  \/ \E w \in Workers, run_id \in RunIdChoices :
       calls < MaxOverlap /\ RetryFailedUrls(w, run_id)
  \/ \E w \in Workers : Step(w, NoFaults)

Spec == Init /\ [][Next]_vars

\* One operation at a time: a sequence of add_url, process_pending_urls and
\* retry_failed_urls calls made by one worker, each run to its end or
\* interrupted.
Sequential(maxCalls, faults) ==
  \/ \E f \in Found : ~Busy(1) /\ AddUrl(f.slug, f.url)
  \/ \E limit \in Limits, run_id \in RunIdChoices :
       calls < maxCalls /\ ProcessPendingUrls(1, limit, run_id)
  \/ \E run_id \in RunIdChoices : calls < maxCalls /\ RetryFailedUrls(1, run_id)
  \/ Step(1, faults)

SeqNext == Sequential(MaxCalls, NoFaults)

SeqSpec == Init /\ [][SeqNext]_vars

\* The same sequence of operations against a database whose inserts may
\* raise an sqlite3 error.
FaultNext == Sequential(MaxFaultCalls, Faults)

FaultSpec == Init /\ [][FaultNext]_vars

(* ------------------------------ the page ------------------------------ *)

MaxElements == 2   \* elements of a page that match a selector of interest

\* ContentExpander._verify_expansion: hidden_selectors
ExpanderHiddenSelectors ==
  {"[data-e2e-test-id='section-content-is-hidden']", "text='Weiterlesen'",
   "text='Read more'"}

\* ContentValidator._check_hidden_sections: hidden_selectors
ValidatorHiddenSelectors ==
  ExpanderHiddenSelectors \cup {"text='Mehr anzeigen'", "text='Show more'"}

\* ScreenshotShooter.section_selectors
section_selectors ==
  <<"h1", "h2", "h3", "h4", "h5", "h6", "[data-testid='section-header']",
    ".section-header", ".article-section">>

\* The selectors one element can match: a collapsed-section marker carries
\* the test id, a label, or both (a button with the test id whose text is
\* the label); a header is a heading tag, a classed element, or both.
MarkerShapes ==
  {{"[data-e2e-test-id='section-content-is-hidden']"},
   {"text='Weiterlesen'"},
   {"[data-e2e-test-id='section-content-is-hidden']", "text='Weiterlesen'"},
   {"text='Mehr anzeigen'"}}

HeaderShapes == {{"h2"}, {"h2", ".section-header"}, {".article-section"}}

\* The bounding boxes of a header: inside the article column, or as wide
\* as the viewport; at one of two heights of the page.
HeaderBoxes ==
  {[x |-> x, y |-> y, width |-> IF x = 0 THEN 1280 ELSE 848, height |-> 50] :
     x \in {0, 380}, y \in {100, 700}}

NoBox == [x |-> 0, y |-> 0, width |-> 0, height |-> 0]

\* An element as the locators see it: the selectors that match it,
\* is_visible() and bounding_box().
Markers == [sels : MarkerShapes, visible : BOOLEAN, bbox : {NoBox}]
Headers == [sels : HeaderShapes, visible : BOOLEAN, bbox : HeaderBoxes]
Elements == Markers \cup Headers

\* A page: its elements of interest in document order.
SeqsUpTo(S, n) == UNION {[1..k -> S] : k \in 0..n}
Pages == SeqsUpTo(Elements, MaxElements)

\* page.locator(selector): the matching elements, in document order.
Locator(pg, selector) ==
  LET Matches(e) == selector \in e.sels IN SelectSeq(pg, Matches)

\* The number of elements of a locator for which is_visible() is true.
VisibleCount(elements) ==
  LET IsVisible(e) == e.visible IN Len(SelectSeq(elements, IsVisible))

RECURSIVE SumOver(_, _)
\* The sum of f over a finite set.
SumOver(f, S) ==
  IF S = {} THEN 0
  ELSE LET x == CHOOSE y \in S : TRUE IN f[x] + SumOver(f, S \ {x})

\* total_hidden of _verify_expansion and of _check_hidden_sections: for
\* each selector the visible elements of its locator are counted, and the
\* counts are added up.
TotalHidden(pg, selectors) ==
  SumOver([sel \in selectors |-> VisibleCount(Locator(pg, sel))], selectors)

(* --------------------------- ContentExpander -------------------------- *)

\* @retry(stop=stop_after_attempt(4), ...)
StopAfterAttempt == 4

\* What one attempt's strategies (clicks, JavaScript fallback) can make of
\* the page: any of the visible markers may have become hidden.
Expanded(pg) ==
  {q \in [1..Len(pg) -> Elements] :
     \A i \in 1..Len(pg) :
       \/ q[i] = pg[i]
       \/ pg[i] \in Markers /\ pg[i].visible /\ q[i] = [pg[i] EXCEPT !.visible = FALSE]}

\* _verify_expansion: raises ExpansionFailure when total_hidden > 0.
VerifyExpansion(pg) ==
  IF TotalHidden(pg, ExpanderHiddenSelectors) > 0 THEN "ExpansionFailure" ELSE NULL

\* A stop that lets one attempt more through.
RetryOutcomeOneMore(c, exc) ==
  IF exc = NULL THEN [c EXCEPT !.done = TRUE, !.raised = NULL]
  ELSE IF c.attempt <= StopAfterAttempt THEN [c EXCEPT !.attempt = @ + 1]
  ELSE [c EXCEPT !.done = TRUE, !.raised = "RetryError"]

\* The retry decorator around an attempt that raised `exc` (NULL: it
\* returned): before the stop the attempt is made again; at the stop, as
\* reraise is not set, tenacity raises RetryError from the last exception.
RetryOutcome(c, exc) ==
  IF exc = NULL THEN [c EXCEPT !.done = TRUE, !.raised = NULL]
  ELSE IF c.attempt < StopAfterAttempt THEN [c EXCEPT !.attempt = @ + 1]
  ELSE [c EXCEPT !.done = TRUE, !.raised = "RetryError"]

\* A component is called on the open page.
Called(fn) ==
  [fn |-> fn, attempt |-> 1, done |-> FALSE, raised |-> NULL, result |-> NULL,
   slug |-> NULL, failing |-> {}]

\* await expander.fully_expand(page)
CallFullyExpand ==
  /\ call = NoCall
  /\ call' = Called("fully_expand")
  /\ UNCHANGED <<urls, runs, images, task, calls, page>>

\* One attempt of fully_expand: the strategies, then _verify_expansion.
ExpandAttempt ==
  /\ call.fn = "fully_expand" /\ ~call.done
  /\ page' \in Expanded(page)
  /\ call' = RetryOutcome(call, VerifyExpansion(page'))
  /\ UNCHANGED <<urls, runs, images, task, calls>>

\* The caller goes on after the component has returned or raised.
Return ==
  /\ call # NoCall /\ call.done
  /\ call' = NoCall
  /\ UNCHANGED <<urls, runs, images, task, calls, page>>

(* --------------------------- ContentValidator ------------------------- *)

\* _check_hidden_sections: no exception of a locator is modelled, so every
\* selector's count is added.
CheckHiddenSections(pg) == TotalHidden(pg, ValidatorHiddenSelectors)

\* validate_page: the result dict it builds and returns.
ValidatePage(pg) ==
  LET hidden_count == CheckHiddenSections(pg)
  IN  [expansion_valid |-> hidden_count = 0,
       hidden_sections_count |-> hidden_count,
       validation_passed |-> hidden_count = 0,
       errors |-> IF hidden_count > 0
                    THEN <<[msg |-> "Found hidden sections", n |-> hidden_count]>>
                    ELSE <<>>]

\* A call that returns `result` at once.
Returned(fn, result) == [Called(fn) EXCEPT !.done = TRUE, !.result = result]

\* await validator._check_hidden_sections(page)
CallCheckHiddenSections ==
  /\ call = NoCall
  /\ call' = Returned("_check_hidden_sections", CheckHiddenSections(page))
  /\ UNCHANGED <<urls, runs, images, task, calls, page>>

\* await validator.validate_page(page)
CallValidatePage ==
  /\ call = NoCall
  /\ call' = Returned("validate_page", ValidatePage(page))
  /\ UNCHANGED <<urls, runs, images, task, calls, page>>

(* --------------------------- ScreenshotShooter ------------------------ *)

\* _find_content_area: article_clip
article_clip == [x |-> 380, y |-> 56, width |-> 848, height |-> 1200]

\* _find_content_area returns the fixed article_clip, never None.
FindContentArea == Some(article_clip)

\* _capture_content_area: chunk_height
ChunkHeight == 1000

\* The header test of _get_section_headers: visible, with a bounding box
\* inside the content area's horizontal extent.
InContentArea(e, content_area) ==
  /\ e.visible
  /\ e.bbox.x >= content_area.x
  /\ e.bbox.x + e.bbox.width <= content_area.x + content_area.width

RECURSIVE Collect(_, _, _)
\* The loop over section_selectors from selector k on: the positions of the
\* elements each locator yields that pass the test, appended selector by
\* selector.
Collect(pg, content_area, k) ==
  IF k > Len(section_selectors) THEN <<>>
  ELSE LET Hit(i) == /\ section_selectors[k] \in pg[i].sels
                     /\ InContentArea(pg[i], content_area)
           positions == [i \in 1..Len(pg) |-> i]
       IN  SelectSeq(positions, Hit) \o Collect(pg, content_area, k + 1)

RECURSIVE SortByY(_, _)
\* sorted_headers.sort(key=lambda x: x[0]): a stable sort by bbox["y"].
SortByY(pg, hs) ==
  IF hs = <<>> THEN <<>>
  ELSE LET k == CHOOSE i \in 1..Len(hs) :
                  /\ \A j \in 1..Len(hs) : pg[hs[i]].bbox.y <= pg[hs[j]].bbox.y
                  /\ \A j \in 1..(i - 1) : pg[hs[j]].bbox.y > pg[hs[i]].bbox.y
           rest == [j \in 1..(Len(hs) - 1) |-> IF j < k THEN hs[j] ELSE hs[j + 1]]
       IN  <<hs[k]>> \o SortByY(pg, rest)

\* _get_section_headers: the headers (positions in the document) in the
\* order of their vertical position.
GetSectionHeaders(pg, content_area) == SortByY(pg, Collect(pg, content_area, 1))

RECURSIVE Chunks(_, _, _)
\* The while loop of _capture_content_area from y_start on.
Chunks(slug, content_area, y_start) ==
  IF y_start < content_area.y + content_area.height
    THEN LET chunk_end == Min(y_start + ChunkHeight, content_area.y + content_area.height)
             chunk_index == (y_start - content_area.y) \div ChunkHeight
         IN  <<[filename |-> <<"content_chunk_", chunk_index, "_", slug, ".png">>,
                idx |-> chunk_index,
                title |-> <<"content_chunk_", chunk_index>>]>>
             \o Chunks(slug, content_area, chunk_end)
    ELSE <<>>

\* _capture_content_area
CaptureContentArea(slug, content_area) == Chunks(slug, content_area, content_area.y)

\* _capture_full_page
CaptureFullPage(slug) ==
  <<[filename |-> <<"full_page_", slug, ".png">>, idx |-> 0, title |-> "full_page"]>>

RECURSIVE CaptureSections(_, _, _)
\* for i, header in enumerate(headers) from position k on: a header whose
\* capture raises (its index i is in `failing`) is skipped.  The title is
\* the sanitized text of the header, here the header itself.
CaptureSections(headers, failing, k) ==
  IF k > Len(headers) THEN <<>>
  ELSE (IF (k - 1) \in failing THEN <<>>
        ELSE <<[filename |-> <<"sec_", k - 1, "_", headers[k], ".png">>,
                idx |-> k - 1,
                title |-> headers[k]]>>)
       \o CaptureSections(headers, failing, k + 1)

\* shoot_sections
ShootSections(pg, slug, failing) ==
  LET content_area == Value(FindContentArea)
      headers == GetSectionHeaders(pg, content_area)
  IN  IF FindContentArea = None THEN CaptureFullPage(slug)
      ELSE IF headers = <<>> THEN CaptureContentArea(slug, content_area)
      ELSE CaptureSections(headers, failing, 1)

\* await shooter.shoot_sections(page, slug, run_id, outdir); the captures of
\* any of the sections may raise.
CallShootSections(slug) ==
  /\ call = NoCall
  /\ \E failing \in SUBSET (0..(MaxElements - 1)) :
       call' = [Returned("shoot_sections", ShootSections(page, slug, failing))
                  EXCEPT !.slug = slug, !.failing = failing]
  /\ UNCHANGED <<urls, runs, images, task, calls, page>>

\* The components called on a page, in any order.
PageInit ==
  /\ EmptyStore
  /\ page \in Pages
  /\ call = NoCall

PageNext ==
  \/ CallFullyExpand \/ ExpandAttempt
  \/ CallCheckHiddenSections \/ CallValidatePage
  \/ \E slug \in TrackedSlugs : CallShootSections(slug)
  \/ Return

PageSpec == PageInit /\ [][PageNext]_vars

(* ------------------------- _sanitize_filename ------------------------- *)

MaxEdge == 2   \* characters at each end of a text that are not filler

\* if len(sanitized) > 50: sanitized = sanitized[:50]
MaxFilenameLen == 50

\* A str is the sequence of its characters.  The characters of a text, by
\* what _sanitize_filename does with them: an ordinary one, two of the
\* class [<>:"/\\|?*], the space and the dot.
TextChars == {"a", "<", "/", " ", "."}

\* re.sub(r'[<>:"/\\|?*]', '_', text): the character class.
InvalidChars == {"<", ">", ":", "\"", "/", "\\", "|", "?", "*"}

\* n times the character c.
Filler(c, n) == [i \in 1..n |-> c]

\* The texts: the two ends are any characters, the middle is filler, of no
\* length or of a length that brings the text near the limit.
Texts ==
  {pre \o Filler("x", n) \o suf :
     pre \in SeqsUpTo(TextChars, MaxEdge), suf \in SeqsUpTo(TextChars, MaxEdge),
     n \in {0} \cup ((MaxFilenameLen - 3)..MaxFilenameLen)}

\* str.strip(chars): the leading and trailing characters in `chars` removed.
Strip(text, chars) ==
  LET kept == {i \in 1..Len(text) : text[i] \notin chars}
  IN  IF kept = {} THEN <<>>
      ELSE SubSeq(text, CHOOSE i \in kept : \A j \in kept : i <= j,
                        CHOOSE i \in kept : \A j \in kept : j <= i)

\* sanitized[:50]
Truncate(text) ==
  IF Len(text) > MaxFilenameLen THEN SubSeq(text, 1, MaxFilenameLen) ELSE text

\* re.sub(r'[<>:"/\\|?*]', '_', text)
ReplaceInvalid(text) ==
  [i \in 1..Len(text) |-> IF text[i] \in InvalidChars THEN "_" ELSE text[i]]

\* "section"
Section == <<"s", "e", "c", "t", "i", "o", "n">>

\* _sanitize_filename with the strip made before the cut to 50 characters.
SanitizeStripFirst(text) ==
  LET sanitized == Truncate(Strip(ReplaceInvalid(text), {" ", "."}))
  IN  IF sanitized = <<>> THEN Section ELSE sanitized

\* _sanitize_filename
SanitizeFilename(text) ==
  LET sanitized == Strip(Truncate(ReplaceInvalid(text)), {" ", "."})
  IN  IF sanitized = <<>> THEN Section ELSE sanitized

\* A call of a function of one argument.
Applied(fn, arg) == [fn |-> fn, arg |-> arg, done |-> FALSE, result |-> NULL]

\* header_text = self._sanitize_filename(header_text.strip())
CallSanitizeFilename ==
  /\ call.fn = "_sanitize_filename" /\ ~call.done
  /\ call' = [call EXCEPT !.done = TRUE, !.result = SanitizeFilename(call.arg)]
  /\ UNCHANGED <<urls, runs, images, task, calls, page>>

\* The sanitized text is sanitized again.
SanitizeAgain ==
  /\ call.fn = "_sanitize_filename" /\ call.done
  /\ call.result # call.arg
  /\ call' = Applied("_sanitize_filename", call.result)
  /\ UNCHANGED <<urls, runs, images, task, calls, page>>

SanitizeInit ==
  /\ EmptyStore
  /\ page = NoPage
  /\ call \in {Applied("_sanitize_filename", text) : text \in Texts}

SanitizeNext == CallSanitizeFilename \/ SanitizeAgain

SanitizeSpec == SanitizeInit /\ [][SanitizeNext]_vars

(* --------------------------- slug extraction -------------------------- *)

MaxSlugLen == 2      \* characters of an article identifier
MaxDiscovered == 2   \* URLs the crawl yields

LowerLetters ==
  {"a", "b", "c", "d", "e", "f", "g", "h", "i", "j", "k", "l", "m",
   "n", "o", "p", "q", "r", "s", "t", "u", "v", "w", "x", "y", "z"}

UpperLetters ==
  {"A", "B", "C", "D", "E", "F", "G", "H", "I", "J", "K", "L", "M",
   "N", "O", "P", "Q", "R", "S", "T", "U", "V", "W", "X", "Y", "Z"}

Digits == {"0", "1", "2", "3", "4", "5", "6", "7", "8", "9"}

\* settings.article_pattern: the literal part with its alternation, and the
\* character class of the group ([a-z0-9-]+).
PatternHeads ==
  {"https://next.amboss.com/de/article/", "https://next.amboss.com/de/knowledge/"}

PatternClass == LowerLetters \cup Digits \cup {"-"}

\* A URL is its text up to the last path segment (head) and the characters
\* that follow (tail).  The URLs of the crawl: identifiers of lower and
\* upper case letters, digits and hyphens, among them the first article of
\* the site's list, --0D-i.
IdChars == {"a", "D", "0", "-"}

CrawledUrls ==
  [head : PatternHeads \cup {"https://next.amboss.com/de/library/"},
   tail : (SeqsUpTo(IdChars, MaxSlugLen) \ {<<>>}) \cup {<<"-", "-", "0", "D", "-", "i">>}]

\* The longest prefix of the text whose characters are all in the class:
\* what a greedy + or * takes.
Greedy(text, class) ==
  LET n == CHOOSE k \in 0..Len(text) :
             /\ \A i \in 1..k : text[i] \in class
             /\ k < Len(text) => text[k + 1] \notin class
  IN  SubSeq(text, 1, n)

\* FastAMBOSSProcessor.article_pattern.match(url): the pattern names
\* /de/article/ only, and its class is [a-zA-Z0-9-].
FastMatch(url) ==
  LET group == Greedy(url.tail, PatternClass \cup UpperLetters)
  IN  IF url.head = "https://next.amboss.com/de/article/" /\ group # <<>>
        THEN Some(group) ELSE None

\* self.slug_pattern.match(url): None, or the match with its group 1.  A
\* match starts at the start of the URL and need not reach its end.
Match(url) ==
  LET group == Greedy(url.tail, PatternClass)
  IN  IF url.head \in PatternHeads /\ group # <<>> THEN Some(group) ELSE None

\* discover_articles, for one URL the crawl yields: on a match the URL is
\* added under slug = match.group(1).
DiscoverArticle(url) ==
  /\ urls' = IF Match(url) # None
               THEN InsertOrIgnoreUrl(urls, Value(Match(url)), url)
               ELSE urls
  /\ UNCHANGED <<runs, images, task, calls, page, call>>

SlugNext ==
  \E url \in CrawledUrls : Len(urls) < MaxDiscovered /\ DiscoverArticle(url)

SlugSpec == Init /\ [][SlugNext]_vars

(* ------------------------- FastAMBOSSProcessor ------------------------ *)

MaxArticles == 2   \* URLs in the list given to process_all_articles
MaxRateCalls == 1  \* batch invocations of the CLI in a process

\* The URLs of the list: one that matches the processor's pattern and one
\* that does not.
FastUrls ==
  {[head |-> "https://next.amboss.com/de/article/", tail |-> <<"a">>],
   [head |-> "https://next.amboss.com/de/library/", tail |-> <<"a">>]}

\* dict.get(key, default)
Get(d, key, default) == IF key \in DOMAIN d THEN d[key] ELSE default

\* process_article on a URL whose page, once expanded, is pg: `raised` is
\* an exception of create_context, new_page or goto, authOk the result of
\* verify_auth, expandOk tells that fully_expand returned.
ProcessArticle(url, pg, raised, authOk, expandOk) ==
  IF FastMatch(url) = None THEN [success |-> FALSE, error |-> "Invalid URL format"]
  ELSE IF raised THEN [success |-> FALSE, error |-> "Processing error"]
  ELSE IF ~authOk THEN [success |-> FALSE, error |-> "Authentication failed"]
  ELSE IF ~expandOk THEN [success |-> FALSE, error |-> "Processing error"]
  ELSE IF ~Get(ValidatePage(pg), "is_valid", FALSE)
    THEN [success |-> FALSE, error |-> "Validation failed"]
  ELSE [success |-> TRUE, error |-> NULL]

\* process_all_articles(urls, limit) up to the authentication check.
CallProcessAllArticles(articles, limit) ==
  /\ call = NoCall
  /\ EmptyStore
  /\ call' = [fn |-> "process_all_articles", pc |-> "auth", done |-> FALSE,
              raised |-> NULL,
              urls |-> IF Truthy(limit)
                         THEN SubSeq(articles, 1, Min(Value(limit), Len(articles)))
                         ELSE articles,
              i |-> 0, processed_count |-> 0, success_count |-> 0,
              failed_count |-> 0]
  /\ UNCHANGED <<urls, runs, images, task, calls, page>>

\* if not await auth_manager.verify_auth(page): raise Exception(...)
FastVerifyAuth ==
  /\ call.fn = "process_all_articles" /\ call.pc = "auth"
  /\ \E authOk \in BOOLEAN :
       call' = IF ~authOk THEN [call EXCEPT !.pc = "raised", !.done = TRUE, !.raised = "Exception"]
               ELSE IF call.urls = <<>> THEN [call EXCEPT !.pc = "return"]
               ELSE [call EXCEPT !.pc = "article"]
  /\ UNCHANGED <<urls, runs, images, task, calls, page>>

\* for i, url in enumerate(urls): the attempt and its counters; the loop
\* sleeps unless the URL is the last one.
FastProcessArticle ==
  /\ call.fn = "process_all_articles" /\ call.pc = "article"
  /\ \E pg \in Pages, raised \in BOOLEAN, authOk \in BOOLEAN, expandOk \in BOOLEAN :
       /\ expandOk => VerifyExpansion(pg) = NULL
       /\ LET r == ProcessArticle(call.urls[call.i + 1], pg, raised, authOk, expandOk)
              counted == IF r.success
                           THEN [call EXCEPT !.processed_count = @ + 1, !.success_count = @ + 1]
                           ELSE [call EXCEPT !.processed_count = @ + 1, !.failed_count = @ + 1]
          IN  call' = IF call.i < Len(call.urls) - 1
                        THEN [counted EXCEPT !.pc = "sleep"]
                        ELSE [counted EXCEPT !.pc = "return"]
  /\ UNCHANGED <<urls, runs, images, task, calls, page>>

\* await asyncio.sleep(delay), then the next URL.
FastSleep ==
  /\ call.fn = "process_all_articles" /\ call.pc = "sleep"
  /\ call' = [call EXCEPT !.pc = "article", !.i = @ + 1]
  /\ UNCHANGED <<urls, runs, images, task, calls, page>>

\* return result
FastReturn ==
  /\ call.fn = "process_all_articles" /\ call.pc = "return"
  /\ call' = [call EXCEPT !.pc = "returned", !.done = TRUE]
  /\ UNCHANGED <<urls, runs, images, task, calls, page>>

\* A process runs the batches of the CLI against its database, or the fast
\* processor on a list of URLs.
RateNext ==
  \/ call = NoCall /\ Sequential(MaxRateCalls, NoFaults)
  \/ \E articles \in SeqsUpTo(FastUrls, MaxArticles), limit \in Limits :
       CallProcessAllArticles(articles, limit)
  \/ FastVerifyAuth \/ FastProcessArticle \/ FastSleep \/ FastReturn
  \/ Return

RateSpec == Init /\ [][RateNext]_vars

(* ------------------------------ section clip -------------------------- *)

\* The header positions and section indexes the clip is computed for.
MaxHeaderY == 1400
MaxIndex == 1

\* header.bounding_box() of a header at height y of the page.
HeaderBoxAt(y) == [x |-> 380, y |-> y, width |-> 848, height |-> 50]

Max(a, b) == IF a > b THEN a ELSE b

\* _calculate_section_clip_with_content_area
CalculateSectionClipWithContentArea(header_bbox, content_area, index) ==
  LET y_start == Max(content_area.y, header_bbox.y - 50)
      height == IF index = 0 THEN Min(1200, content_area.height)
                             ELSE Min(1000, content_area.height)
      max_y == content_area.y + content_area.height
      y_end == Min(y_start + height, max_y)
      actual_height == y_end - y_start
  IN  [x |-> content_area.x, y |-> y_start,
       width |-> content_area.width, height |-> actual_height]

\* _capture_section computes the clip of the header it was given, in the
\* content area that shoot_sections found.
CallCalculateSectionClip(header_bbox, index) ==
  /\ call = NoCall
  /\ FindContentArea # None
  /\ LET content_area == Value(FindContentArea)
     IN  call' = [Applied("_calculate_section_clip_with_content_area",
                          [header_bbox |-> header_bbox,
                           content_area |-> content_area,
                           index |-> index])
                    EXCEPT !.done = TRUE,
                           !.result = CalculateSectionClipWithContentArea(
                                        header_bbox, content_area, index)]
  /\ UNCHANGED <<urls, runs, images, task, calls, page>>

ClipNext ==
  \/ \E y \in 0..MaxHeaderY, index \in 0..MaxIndex :
       CallCalculateSectionClip(HeaderBoxAt(y), index)
  \/ Return

ClipSpec == Init /\ [][ClipNext]_vars

(* ------------------------- fully_expand, alone ------------------------ *)

\* _expand_content: fully_expand is the only component called on the page.
MaxExpandElements == 1

ExpandInit ==
  /\ EmptyStore
  /\ page \in SeqsUpTo(Elements, MaxExpandElements)
  /\ call = NoCall

ExpandNext == CallFullyExpand \/ ExpandAttempt \/ Return

ExpandSpec == ExpandInit /\ [][ExpandNext]_vars

(* ---------------------- process_article, both copies ------------------ *)

\* process_article of the standalone script src/fast_amboss_processor.py,
\* with the parameters of ProcessArticle: it reads validation_passed and
\* errors from the validator's result.
ScriptProcessArticle(url, pg, raised, authOk, expandOk) ==
  IF FastMatch(url) = None THEN [success |-> FALSE, error |-> "Invalid URL format"]
  ELSE IF raised THEN [success |-> FALSE, error |-> "Processing error"]
  ELSE IF ~authOk THEN [success |-> FALSE, error |-> "Authentication failed"]
  ELSE IF ~expandOk THEN [success |-> FALSE, error |-> "Processing error"]
  ELSE IF ~Get(ValidatePage(pg), "validation_passed", FALSE)
    THEN [success |-> FALSE, error |-> "Validation failed"]
  ELSE [success |-> TRUE, error |-> NULL]

\* One article is given to both processors: the open page is the article
\* after the expansion, and the steps before the validation have the same
\* outcome for both.
CallProcessArticle(url, raised, authOk, expandOk) ==
  /\ call = NoCall
  /\ expandOk => VerifyExpansion(page) = NULL
  /\ call' = [fn |-> "process_article", done |-> TRUE,
              arg |-> [url |-> url, raised |-> raised, authOk |-> authOk,
                       expandOk |-> expandOk],
              result |-> ProcessArticle(url, page, raised, authOk, expandOk),
              script |-> ScriptProcessArticle(url, page, raised, authOk, expandOk)]
  /\ UNCHANGED <<urls, runs, images, task, calls, page>>

ArticleNext ==
  \/ \E url \in FastUrls, raised \in BOOLEAN, authOk \in BOOLEAN, expandOk \in BOOLEAN :
       CallProcessArticle(url, raised, authOk, expandOk)
  \/ Return

ArticleSpec == PageInit /\ [][ArticleNext]_vars

(* --------------------- a capture of several sections ------------------ *)

\* Batches against a database whose inserts may raise, on articles whose
\* capture returns up to MaxSaveShots screenshots.
MaxSaveCalls == 2
MaxSaveShots == 2

SaveNext ==
  \/ Sequential(MaxSaveCalls, Faults)
  \/ CaptureShots(1, MaxSaveShots)

SaveSpec == Init /\ [][SaveNext]_vars

(* --------------------------- the CLI commands ------------------------- *)

MaxCliCalls == 2  \* commands run one after the other

\* return {"processed": 0, "successful": 0, "failed": 0}
EmptyBatchResult == [processed |-> 0, successful |-> 0, failed |-> 0]

\* return {"processed": len(pending_urls), "successful": successful,
\*         "failed": failed, "run_id": run_id}
BatchResult(t) ==
  [processed |-> Len(t.pending_urls), successful |-> t.successful,
   failed |-> t.failed, run_id |-> t.run_id]

\* return {"retried": 0, "successful": 0, "failed": 0}
EmptyRetryResult == [retried |-> 0, successful |-> 0, failed |-> 0]

\* The keys the echo lines of run and of retry_failed read from the result.
EchoedKeys == {"processed", "successful", "failed", "run_id"}

\* A command whose batch is running.
Running(fn) == [fn |-> fn, done |-> FALSE]

\* The command echoes the result: reading a key the dict lacks raises
\* KeyError, which the except clause turns into typer.Exit(1).
Echo(fn, result) ==
  [fn |-> fn, done |-> TRUE, result |-> result,
   exit_code |-> IF EchoedKeys \subseteq DOMAIN result THEN 0 ELSE 1]

\* run_processing and run_retry pass no run_id: uuid4 makes an unused one.
FreshRunIds == RunIdChoices \ UsedRunIds

\* amboss run --limit: run_processing(limit), up to get_pending_urls; with
\* no pending URL the result comes back at once and is echoed.
RunCommand(limit, run_id) ==
  /\ call = NoCall /\ ~Busy(1)
  /\ calls < MaxCliCalls
  /\ calls' = calls + 1
  /\ LET batch == Batch(run_id, limit, urls)
     IN  /\ task' = [task EXCEPT ![1] = batch]
         /\ call' = IF batch = Idle THEN Echo("run", EmptyBatchResult)
                    ELSE Running("run")
  /\ UNCHANGED <<urls, runs, images, page>>

\* amboss retry-failed: run_retry(), up to get_failed_urls; with no failed
\* URL the result comes back at once and is echoed.
RetryFailedCommand(run_id) ==
  /\ call = NoCall /\ ~Busy(1)
  /\ calls < MaxCliCalls
  /\ calls' = calls + 1
  /\ LET retry == Retry(run_id, urls)
     IN  /\ task' = [task EXCEPT ![1] = retry]
         /\ call' = IF retry = Idle THEN Echo("retry_failed", EmptyRetryResult)
                    ELSE Running("retry_failed")
  /\ UNCHANGED <<urls, runs, images, page>>

\* The batch of the command ends after its last URL.
LastSleep(t) == t.pc = "sleep" /\ t.i = Len(t.pending_urls)

\* A statement of the running batch, its return left out.
CommandStep ==
  /\ call # NoCall /\ ~call.done
  /\ ~LastSleep(task[1])
  /\ Step(1, NoFaults)

\* process_pending_urls returns its result dict, to the command or through
\* retry_failed_urls, and the command echoes it.
CommandReturns ==
  /\ call # NoCall /\ ~call.done
  /\ LastSleep(task[1])
  /\ task' = [task EXCEPT ![1] = Idle]
  /\ call' = Echo(call.fn, BatchResult(task[1]))
  /\ UNCHANGED <<urls, runs, images, calls, page>>

\* The command was interrupted: it echoes nothing.
CommandKilled ==
  /\ call # NoCall /\ ~call.done /\ ~Busy(1)
  /\ call' = NoCall
  /\ UNCHANGED <<urls, runs, images, task, calls, page>>

CliNext ==
  \/ \E f \in Found : call = NoCall /\ AddUrl(f.slug, f.url)
  \/ \E limit \in Limits, run_id \in FreshRunIds : RunCommand(limit, run_id)
  \/ \E run_id \in FreshRunIds : RetryFailedCommand(run_id)
  \/ CommandStep \/ CommandReturns \/ CommandKilled
  \/ Return

CliSpec == Init /\ [][CliNext]_vars

(* --------------------------- discovery crawl -------------------------- *)

MaxStartUrls == 2  \* length of the start_urls list

\* The pages of the site that link to each other, and the article URLs
\* their HTML can hold.
SitePages ==
  {"https://next.amboss.com/de/article", "https://next.amboss.com/de/knowledge",
   "https://next.amboss.com/de/library"}

SiteArticles ==
  {"https://next.amboss.com/de/article/a", "https://next.amboss.com/de/article/b"}

\* What a fetched page holds: the matches of slug_pattern and the links
\* extract_links returns, duplicates removed.
Htmls == [articles : SUBSET SiteArticles, links : SUBSET SitePages]

\* list(set(links)): the links in an order the set decides.
Orders(S) == {s \in [1..Cardinality(S) -> S] : Range(s) = S}

\* A loop that fetches whatever it takes off the queue.
NeverVisited(url, visited) == FALSE

\* if url in visited: continue
AlreadyVisited(url, visited) == url \in visited

\* extract_slugs: the matches not yet in self.discovered_urls, which they
\* are added to.
ExtractSlugs(html, discovered_urls) == html.articles \ discovered_urls

\* The links put on the queue: those not visited and not queued.
NewLinks(html, visited, queue) ==
  {link \in html.links : link \notin visited /\ link \notin Range(queue)}

\* discover_from_start_urls(start_urls) up to the while loop: the start
\* URLs are put on the queue as they are listed.
CallDiscoverFromStartUrls(start_urls) ==
  /\ call = NoCall
  /\ call' = [fn |-> "discover_from_start_urls", done |-> FALSE,
              start_urls |-> start_urls,
              queue |-> start_urls, visited |-> {}, discovered_urls |-> {},
              fetched |-> [p \in SitePages |-> 0],
              failed |-> {},
              yielded |-> [a \in SiteArticles |-> 0]]
  /\ UNCHANGED <<urls, runs, images, task, calls, page>>

\* One turn of the while loop: the URL at the head of the queue is skipped
\* when visited; else it is marked, fetch_html is called for it, and either
\* that raises (after its retries) and the loop goes on, or the new article
\* URLs are yielded and the new links queued.
CrawlStep ==
  /\ call.fn = "discover_from_start_urls" /\ ~call.done
  /\ call.queue # <<>>
  /\ LET url == Head(call.queue)
         queue == Tail(call.queue)
         visited == call.visited \cup {url}
     IN  IF AlreadyVisited(url, call.visited)
           THEN call' = [call EXCEPT !.queue = queue]
           ELSE \/ call' = [call EXCEPT !.queue = queue, !.visited = visited,
                                        !.fetched[url] = @ + 1,
                                        !.failed = @ \cup {url}]
                \/ \E html \in Htmls :
                     LET slugs == ExtractSlugs(html, call.discovered_urls)
                     IN  \E links \in Orders(NewLinks(html, visited, queue)) :
                           call' = [call EXCEPT
                                      !.queue = queue \o links,
                                      !.visited = visited,
                                      !.fetched[url] = @ + 1,
                                      !.discovered_urls = @ \cup slugs,
                                      !.yielded = [a \in SiteArticles |->
                                                     IF a \in slugs THEN @[a] + 1
                                                     ELSE @[a]]]
  /\ UNCHANGED <<urls, runs, images, task, calls, page>>

\* while not queue.empty(): the generator ends with the empty queue.
CrawlEnd ==
  /\ call.fn = "discover_from_start_urls" /\ ~call.done
  /\ call.queue = <<>>
  /\ call' = [call EXCEPT !.done = TRUE]
  /\ UNCHANGED <<urls, runs, images, task, calls, page>>

CrawlNext ==
  \/ \E start_urls \in SeqsUpTo(SitePages, MaxStartUrls) :
       CallDiscoverFromStartUrls(start_urls)
  \/ CrawlStep \/ CrawlEnd
  \/ Return

\* discover_articles consumes the generator to its end: the loop is not
\* left waiting for ever.
CrawlSpec == Init /\ [][CrawlNext]_vars /\ WF_vars(CrawlStep \/ CrawlEnd)

(* ------------------------------- claims ------------------------------- *)

ActiveRuns(slug) == {r \in runs : r.slug = slug /\ ~r.finished}

\* C1: under any interleaving of batches, each URL identifier has at most
\* one active run: one run record started by start_run and not yet finished
\* by finish_run.
C1_AtMostOneActiveRun ==
  \A slug \in TrackedSlugs : Cardinality(ActiveRuns(slug)) <= 1

\* C2: every image record's (run_id, slug) pair is the key of an existing
\* run record; add_image for a pair with no run record stores nothing, also
\* after a start_run that returned False.
C2_ImagesHaveRuns ==
  \A m \in images : HasRun(runs, m.run_id, m.slug)

\* C2, its case: start_run has returned False without storing a run record,
\* the loop went on, and _save_results is about to call add_image for the
\* pair.
C2_Witness ==
  \E w \in Workers :
    /\ task[w].pc = "save"
    /\ ~HasRun(runs, task[w].run_id, Slug(task[w]))

\* The status transitions of the URL record's lifecycle; a slug that is not
\* tracked has status NULL, and `resetting` tells that the step is made by
\* the reset loop of retry_failed_urls.
Allowed(old, new, resetting) ==
  \/ new = old
  \/ old = NULL /\ new = "pending"
  \/ old = "pending" /\ new = "processing"
  \/ old = "processing" /\ new \in {"done", "failed_expansion", "failed_validation"}
  \/ old \in {"failed_expansion", "failed_validation"} /\ new = "pending" /\ resetting

\* C3: over any sequence of discovery, process_pending_urls and
\* retry_failed_urls operations a URL's status only moves pending ->
\* processing -> (done | failed_expansion | failed_validation); the only
\* backward step is the reset failed_* -> pending made by retry_failed_urls,
\* and a URL in status done never changes status again.
C3_MonotonicStatus ==
  [][\A slug \in TrackedSlugs :
       Allowed(StatusOf(urls, slug), StatusOf(urls', slug),
               \E w \in Workers : task[w].pc = "reset")]_vars

\* C3, its case: one URL is done, and another one that failed has been reset
\* to pending by retry_failed_urls.
C3_Witness ==
  /\ \E i \in 1..Len(urls) : urls[i].status = "done"
  /\ \E i \in 1..Len(urls) :
       /\ urls[i].status = "pending"
       /\ \E r \in runs : r.slug = urls[i].slug /\ r.ok = "FALSE"

\* C4: processing is resumable: a URL that an interrupted batch left in
\* status processing is brought to done or failed_* by the calls that
\* follow.  In the form a finite run refutes: when no batch is running,
\* every URL in status processing is one that the next process_pending_urls
\* or retry_failed_urls call selects.
C4_Resumable ==
  (\A w \in Workers : ~Busy(w)) =>
    \A i \in 1..Len(urls) :
      urls[i].status = "processing" =>
        urls[i].slug \in Range(GetPendingUrls(urls, None)) \cup Range(GetFailedUrls(urls))

\* The step by which process_pending_urls returns after its last URL.
Returns(w) ==
  /\ task[w].pc = "sleep"
  /\ task[w].i = Len(task[w].pending_urls)
  /\ task'[w].pc = "idle"

\* A call of process_pending_urls on these rows returns at once.
NothingToProcess(rows) ==
  \A limit \in Limits, run_id \in {RunIdSeq[k] : k \in 1..Len(RunIdSeq)} :
    Batch(run_id, limit, rows) = Idle

\* C5: after process_pending_urls has completed a batch, a further call
\* (no URL discovered and no retry in between) processes no URL, changes no
\* status or retry counter and adds no run or image record.
C5_Idempotent ==
  [][\A w \in Workers : Returns(w) => NothingToProcess(urls')]_vars

\* C5, amended: the same for a batch that selected every URL that was
\* pending when it started.
C5_IdempotentAfterFullBatch ==
  [][\A w \in Workers : (Returns(w) /\ task[w].all) => NothingToProcess(urls')]_vars

\* C5, its case: a batch that selected both pending URLs is about to return.
C5_Witness ==
  \E w \in Workers :
    /\ task[w].pc = "sleep"
    /\ task[w].all
    /\ task[w].i = 2
    /\ Len(task[w].pending_urls) = 2

RunsOf(rs, slug) == {r \in rs : r.slug = slug}

\* C6: one run record per processing attempt per URL, whatever run_id is
\* passed: every attempt (every start_run of the batch loop) adds one run
\* record for its slug, and the record of an earlier attempt is never
\* overwritten.
C6_OneRunPerAttempt ==
  [][/\ \A w \in Workers :
          (task[w].pc = "start_run" /\ task'[w].pc = "context") =>
            Cardinality(RunsOf(runs', Slug(task[w]))) =
              Cardinality(RunsOf(runs, Slug(task[w]))) + 1
     /\ \A r \in runs : r.finished => r \in runs']_vars

\* C7: the URLs one call of retry_failed_urls attempts are the URLs that
\* were in a failed_* status when it was called.
C7_RetriesTheFailed ==
  [][\A w \in Workers :
       (task[w].pc = "select" /\ task'[w].pc = "mark") =>
         Range(task'[w].pending_urls) = Range(task[w].failed_urls)]_vars

\* C8: for every limit n >= 0 the batch attempts min(n, number of pending
\* URLs) URLs, and with no limit every pending URL.
C8_LimitLimits ==
  [][\A w \in Workers, limit \in Limits, run_id \in RunIdChoices :
       ProcessPendingUrls(w, limit, run_id) =>
         Len(task'[w].pending_urls) =
           IF limit = None THEN Len(SelectSeq(urls, IsPending))
           ELSE Min(Value(limit), Len(SelectSeq(urls, IsPending)))]_vars

\* The steps of process_slug in the order of the run.
RunOrder == <<"context", "page", "navigate", "auth", "expand", "validate", "capture", "save">>

\* C9: a run performs navigate, authenticate, expand, validate, capture,
\* save in this order: a step is entered only from the step before it, the
\* capture only with validation_passed = true, and image records are
\* written only by the save step; a failed expansion or validation goes to
\* the finally clause with no screenshot captured and no image written.
C9_RunOrder ==
  [][\A w \in Workers :
       /\ \A k \in 2..Len(RunOrder) :
            (task'[w].pc = RunOrder[k] /\ task[w].pc # RunOrder[k]) =>
              task[w].pc = RunOrder[k - 1]
       /\ (task[w].pc = "validate" /\ task'[w].pc = "capture") =>
            /\ task'[w] = AfterValidate(task[w], TRUE)
            /\ AfterValidate(task[w], FALSE).pc = "close"
            /\ ~AfterValidate(task[w], FALSE).success
       /\ (task[w].pc \in {"expand", "validate"} /\ task'[w].pc = "close") =>
            /\ ~task'[w].success
            /\ task'[w].shots = {}
            /\ images' = images
       /\ images' # images => \E v \in Workers : task[v].pc = "save"]_vars

\* C9, its case: a validated page has been captured and its screenshots are
\* being saved.
C9_Witness ==
  \E w \in Workers : task[w].pc = "save" /\ task[w].shots # {}

NoDuplicateSlug(rows) ==
  \A i, j \in 1..Len(rows) : rows[i].slug = rows[j].slug => i = j

\* C10: add_url for a slug that is already tracked leaves the URL record
\* unchanged, whatever state the record is in, and the store never holds
\* two records with the same slug.
C10_AddUrlIgnoresKnown ==
  [][/\ NoDuplicateSlug(urls')
     /\ \A f \in Found :
          (AddUrl(f.slug, f.url) /\ HasUrl(urls, f.slug)) => urls' = urls]_vars

\* C10, its case: slug a is tracked with a record that is no longer in its
\* initial state, and the crawl can yield a second URL for it.
C10_Witness ==
  /\ ~Busy(1)
  /\ \E i \in 1..Len(urls) :
       /\ urls[i].slug = "a"
       /\ urls[i].status \in {"done", "failed_expansion"}
       /\ urls[i].retry_count > 0
       /\ \E f \in Found : f.slug = "a" /\ f.url # urls[i].url

(* -------------------------- component claims -------------------------- *)

\* A marker the expander's verification looks for is visible on the page.
HiddenMarkerVisible(pg) ==
  \E i \in 1..Len(pg) :
    pg[i].visible /\ pg[i].sels \cap ExpanderHiddenSelectors # {}

\* C11: when a hidden-section marker is still visible after the last
\* attempt of fully_expand, the exception that reaches the caller is an
\* ExpansionFailure.
C11_RaisesExpansionFailure ==
  (call.fn = "fully_expand" /\ call.done /\ HiddenMarkerVisible(page)) =>
    call.raised = "ExpansionFailure"

\* The visible elements (positions) that match one or more of the selectors.
VisibleMatching(pg, selectors) ==
  {i \in 1..Len(pg) : pg[i].visible /\ pg[i].sels \cap selectors # {}}

\* C12: on a page with no visible hidden-section marker validate_page
\* returns validation_passed, expansion_valid and content_density_valid all
\* true and hidden_sections_count 0; on a page with a visible marker it
\* returns validation_passed = false and expansion_valid = false.
C12_ValidatePageResult ==
  (call.fn = "validate_page" /\ call.done) =>
    IF VisibleMatching(page, ValidatorHiddenSelectors) = {}
      THEN /\ call.result.validation_passed
           /\ call.result.expansion_valid
           /\ "content_density_valid" \in DOMAIN call.result
           /\ call.result["content_density_valid"]
           /\ call.result.hidden_sections_count = 0
      ELSE /\ ~call.result.validation_passed
           /\ ~call.result.expansion_valid

\* C13: the count _check_hidden_sections returns, and validate_page reports
\* as hidden_sections_count, is the number of visible hidden-section
\* elements of the page, each element counted once.
C13_HiddenCountIsElements ==
  /\ (call.fn = "_check_hidden_sections" /\ call.done) =>
       call.result = Cardinality(VisibleMatching(page, ValidatorHiddenSelectors))
  /\ (call.fn = "validate_page" /\ call.done) =>
       call.result.hidden_sections_count =
         Cardinality(VisibleMatching(page, ValidatorHiddenSelectors))

\* C14: when no section header is found on the page, shoot_sections returns
\* the single entry ("full_page_<slug>.png", 0, "full_page").
C14_FullPageFallback ==
  (/\ call.fn = "shoot_sections" /\ call.done
   /\ VisibleMatching(page, Range(section_selectors)) = {}) =>
    call.result = CaptureFullPage(call.slug)

\* C15: for a page with n >= 1 visible section headers shoot_sections
\* returns n entries with idx 0..n-1 whose file names end in .png, one for
\* each visible header and no two for the same header, in the order of the
\* headers' vertical position.
C15_OneEntryPerHeader ==
  (/\ call.fn = "shoot_sections" /\ call.done
   /\ VisibleMatching(page, Range(section_selectors)) # {}) =>
    LET result == call.result
        visible == VisibleMatching(page, Range(section_selectors))
    IN  /\ Len(result) = Cardinality(visible)
        /\ \A k \in 1..Len(result) :
             /\ result[k].idx = k - 1
             /\ result[k].filename[Len(result[k].filename)] = ".png"
             /\ result[k].title \in visible
        /\ \A h \in visible : \E k \in 1..Len(result) : result[k].title = h
        /\ \A j, k \in 1..Len(result) :
             j < k => /\ result[j].title # result[k].title
                      /\ page[result[j].title].bbox.y <= page[result[k].title].bbox.y

\* A text _sanitize_filename has nothing to do on.
CleanText(text) ==
  /\ text # <<>>
  /\ Len(text) <= MaxFilenameLen
  /\ \A i \in 1..Len(text) : text[i] \notin InvalidChars
  /\ text[1] \notin {" ", "."} /\ text[Len(text)] \notin {" ", "."}

IsArticleUrl(url) ==
  /\ url.head = "https://next.amboss.com/de/article/"
  /\ url.tail # <<>>
  /\ \A i \in 1..Len(url.tail) :
       url.tail[i] \in LowerLetters \cup UpperLetters \cup Digits \cup {"-"}

\* C17: for every article URL the pattern matches and its group is the
\* complete slug, so the URL is tracked under its own slug and no two
\* article URLs are tracked under the same one.
C17_SlugIsIdentifier ==
  [][\A url \in CrawledUrls :
       (IsArticleUrl(url) /\ DiscoverArticle(url)) =>
         /\ Match(url) = Some(url.tail)
         /\ \E i \in 1..Len(urls') :
              urls'[i].slug = url.tail /\ urls'[i].url = url]_vars

\* C18: in every batch of process_pending_urls and of process_all_articles
\* a delay step lies between two consecutive attempts: the step that takes
\* the loop from one URL to the next is the sleep, also after an attempt
\* that failed.
C18_DelayBetweenAttempts ==
  [][/\ \A w \in Workers :
          (/\ task[w].pending_urls # <<>>
           /\ task'[w].pending_urls = task[w].pending_urls
           /\ task'[w].pc = "mark" /\ task'[w].i > task[w].i) =>
            (task[w].pc = "sleep" /\ Sleep(w))
     /\ (/\ call.fn = "process_all_articles"
         /\ call'.fn = "process_all_articles"
         /\ call'.pc = "article" /\ call'.i > call.i) =>
          (call.pc = "sleep" /\ FastSleep)]_vars

\* C18, its case: an attempt of the batch has failed, a further URL is to
\* come, and the loop is at its sleep.
C18_Witness ==
  \E w \in Workers :
    /\ task[w].pc = "sleep"
    /\ ~task[w].success
    /\ task[w].i < Len(task[w].pending_urls)

\* C19: when process_pending_urls returns after its loop, every URL it
\* selected was attempted once (no slug is in the selection twice, and the
\* counters add up to the number selected: processed = successful +
\* failed), is in status done or failed_*, and has its run record of this
\* batch finished; a failed attempt does not end the loop early.
C19_BatchCompletes ==
  [][\A w \in Workers :
       Returns(w) =>
         LET t == task[w]
         IN  /\ Len(t.pending_urls) = t.successful + t.failed
             /\ \A j, k \in 1..Len(t.pending_urls) :
                  t.pending_urls[j] = t.pending_urls[k] => j = k
             /\ \A k \in 1..Len(t.pending_urls) :
                  /\ StatusOf(urls', t.pending_urls[k]) \in
                       {"done", "failed_expansion", "failed_validation"}
                  /\ \E r \in runs' :
                       /\ r.run_id = t.run_id /\ r.slug = t.pending_urls[k]
                       /\ r.finished]_vars

\* The retry counter of a slug (0 while the slug is not tracked).
RetryCountOf(rows, slug) == IF HasUrl(rows, slug) THEN UrlOf(rows, slug).retry_count ELSE 0

\* The step by which the batch loop records a failed attempt of the slug.
RecordsFailure(w, slug) ==
  /\ task[w].pc = "status" /\ task'[w].pc = "finish"
  /\ Slug(task[w]) = slug
  /\ ~task[w].success

\* C20: the step that records a failed attempt increments the URL's retry
\* counter by one and stores the attempt's error text in last_error,
\* whatever the text, the empty one included; every other step (a recorded
\* success, the retry reset, any step on another URL) leaves the counter as
\* it is, so that the counter is the number of failed attempts.
C20_RetryCountCountsFailures ==
  [][\A slug \in TrackedSlugs :
       /\ \A w \in Workers :
            RecordsFailure(w, slug) =>
              /\ RetryCountOf(urls', slug) = RetryCountOf(urls, slug) + 1
              /\ UrlOf(urls', slug).last_error = task[w].error
       /\ (\A w \in Workers : ~RecordsFailure(w, slug)) =>
            RetryCountOf(urls', slug) = RetryCountOf(urls, slug)]_vars

(* ----------------------- orchestration claims, II --------------------- *)

\* C21: the clip computed by _calculate_section_clip_with_content_area lies
\* inside the content area for every header position and index: it starts
\* at or below the top edge, ends at or above the bottom edge, has a
\* positive height, and has the x and the width of the content area.
C21_ClipInsideContentArea ==
  (call # NoCall /\ call.fn = "_calculate_section_clip_with_content_area")
    => LET clip == call.result
           content == call.arg.content_area
       IN  /\ clip.y >= content.y
           /\ clip.y + clip.height <= content.y + content.height
           /\ clip.height > 0
           /\ clip.x = content.x
           /\ clip.width = content.width

\* A header at or below the bottom edge of the content area gets a clip that
\* starts beyond the area and has no height.
C21_EmptyClip ==
  /\ call # NoCall /\ call.fn = "_calculate_section_clip_with_content_area"
  /\ call.arg.header_bbox.y - 50
       >= call.arg.content_area.y + call.arg.content_area.height
  /\ call.result.height <= 0

\* settings.max_expansion_attempts
max_expansion_attempts == 4

C23_AcceptsWhatTheValidatorAccepts ==
  (call # NoCall /\ call.fn = "process_article")
    => /\ ( /\ FastMatch(call.arg.url) # None
            /\ ~call.arg.raised /\ call.arg.authOk /\ call.arg.expandOk
            /\ ValidatePage(page).validation_passed )
            => call.result = [success |-> TRUE, error |-> NULL]
       /\ call.result = call.script

\* C24: while process_slug expands, validates and captures a slug, its page
\* shows the article URL of that slug.
C24_PageShowsTheArticle ==
  \A w \in Workers :
    task[w].pc \in {"expand", "validate", "capture"}
      => task[w].shown = ArticleUrl(Slug(task[w]))

C26_ContextAndPageClosed ==
  \A w \in Workers : task[w].pc = "status" => task[w].created = {}

\* The batch loop is at the attempt the run record is of.
Attempting(r) ==
  \E w \in Workers :
    /\ task[w].pc \notin {"idle", "reset", "select"}
    /\ task[w].run_id = r.run_id /\ Slug(task[w]) = r.slug

\* C27: a run recorded with ok = false, once its attempt is over, has no
\* image record.
C27_FailedRunsHaveNoImages ==
  \A r \in runs :
    (r.ok = "FALSE" /\ ~Attempting(r))
      => ~\E m \in images : m.run_id = r.run_id /\ m.slug = r.slug

\* C28: the result the run and retry-failed commands get back holds every
\* key they echo, and the commands exit without error.
C28_ResultHasTheEchoedKeys ==
  (call # NoCall /\ call.fn \in {"run", "retry_failed"} /\ call.done)
    => /\ EchoedKeys \subseteq DOMAIN call.result
       /\ call.exit_code = 0

\* The model keeps no order of the run records: what the claim says of the
\* most recent record of a slug is stated of some record of the slug, and
\* of its only record when it has one.
\* C29: with no batch in progress, a URL in status done has a run record
\* with ok = true, a URL whose only run record has ok = true is in status
\* done, and a URL in a failed status has a run record with ok = false whose
\* error_msg is the URL's last_error.
C29_StatusAgreesWithRuns ==
  (\A w \in Workers : ~Busy(w))
    => \A i \in 1..Len(urls) :
         LET u == urls[i]
             rs == RunsOf(runs, u.slug)
         IN  /\ u.status = "done" => \E r \in rs : r.ok = "TRUE"
             /\ (Cardinality(rs) = 1 /\ \A r \in rs : r.ok = "TRUE")
                  => u.status = "done"
             /\ u.status \in {"failed_expansion", "failed_validation"}
                  => \E r \in rs : r.ok = "FALSE" /\ r.error_msg = u.last_error

====
